---- MODULE Spec2Model ----
(***************************************************************************)
(* The retrieval engine of the airline booking assistant: the offline      *)
(* Indexer (backend/rag/ingest.py), the persisted store of three           *)
(* artifacts, and the online Retriever (backend/rag/retriever.py).         *)
(*                                                                         *)
(* Strings are modelled as sequences of lines, a line as a sequence of     *)
(* word tokens; a blank line is <<>>.  The embedding model and the FAISS   *)
(* index are external libraries: the model gives them a small concrete     *)
(* semantics (bag of lower-cased words, exact top-k inner product).        *)
(*                                                                         *)
(* The Indexer is an offline batch job: the policies directory is edited   *)
(* only between runs, and the serving process loads the store while no run *)
(* is in progress and outlives no later run.                               *)
(*                                                                         *)
(* The chat endpoints (backend/main.py) and the agent loop                 *)
(* (backend/agent/executor.py) have specifications of their own: SpecChat  *)
(* takes run_agent as a call that returns a reply or raises, SpecAgent     *)
(* takes the model and the tools as answering anything they can answer.    *)
(***************************************************************************)
EXTENDS Integers, Sequences, FiniteSets, TLC

\* ------------------------------------------------------------------ bounds

\* Number of ingestion runs a behaviour of Spec may start.
MaxRuns == 2
\* Number of request threads that may call query_policy concurrently (SpecConc).
NumThreads == 2

\* n_results of query_policy: its default, which is also what _rag_lookup passes.
DefaultTopK == 3
\* FAISS marks a result slot that has no match with position -1.
NoMatch == -1
\* Scores are fixed-point numbers with five decimals: ScoreOne is 1.0.
ScoreOne == 100000

\* ------------------------------------------------------------- vocabulary

\* Tokens that consist of '#' only: lstrip("# ") removes them from a line's front.
MarkerTokens == {"#", "##", "###"}

\* str.lower() on the words the documents and questions use.
Lower(w) ==
  CASE w = "Baggage" -> "baggage"
    [] w = "Refunds" -> "refunds"
    [] w = "Business" -> "business"
    [] w = "Emirates" -> "emirates"
    [] w = "Terms" -> "terms"
    [] w = "First" -> "first"
    [] w = "Economy" -> "economy"
    [] w = "Check" -> "check"
    [] OTHER -> w

\* Pairs <<w, k>>: k is a proper substring of the lower-case word w.
ProperSubstrings ==
  { <<"refunds", "refund">>, <<"cancellation", "cancel">>,
    <<"specialty", "special">>, <<"firstly", "first">> }

\* kw in word, for one lower-case word and a one-word keyword.
WordHas(w, k) == w = k \/ <<w, k>> \in ProperSubstrings

\* kw in lower: the keyword (a sequence of words, separated by one space)
\* occurs in the lower-cased heading.  A one-word keyword may sit inside a
\* word; the words of a longer keyword must be adjacent words of the heading.
KeywordIn(kw, lower) ==
  \E off \in 0..(Len(lower) - Len(kw)) :
    IF Len(kw) = 1
      THEN WordHas(lower[off + 1], kw[1])
      ELSE \A j \in 1..Len(kw) : lower[off + j] = kw[j]

LowerLine(line) == [j \in 1..Len(line) |-> Lower(line[j])]

\* --------------------------------------------------------- metadata rules

AIRLINE_FROM_STEM ==
  [s \in {"emirates", "qatar_airways", "pia"} |-> s]

POLICY_TYPE_KEYWORDS ==
  << [keywords |-> << <<"baggage">>, <<"allowance">>, <<"excess">>,
                      <<"sports">>, <<"special">> >>,
      label |-> "baggage"],
     [keywords |-> << <<"cancellation">>, <<"cancel">>, <<"refund">>,
                      <<"no-show">>, <<"no", "show">> >>,
      label |-> "cancellation"],
     [keywords |-> << <<"check-in">>, <<"check", "in">>, <<"online", "check">> >>,
      label |-> "check_in"] >>

CABIN_CLASS_KEYWORDS ==
  << [keywords |-> << <<"first", "class">>, <<"first">> >>, label |-> "first"],
     [keywords |-> << <<"business", "class">>, <<"business">> >>, label |-> "business"],
     [keywords |-> << <<"economy", "class">>, <<"economy">> >>, label |-> "economy"] >>

\* A variant of the evaluation in which a later matching rule overrides an
\* earlier one (the loop assigns the label and goes on).
RECURSIVE LastMatch(_, _, _)
LastMatch(rules, lower, fallback) ==
  IF rules = <<>> THEN fallback
  ELSE IF \E n \in 1..Len(Head(rules).keywords) :
            KeywordIn(Head(rules).keywords[n], lower)
    THEN LastMatch(Tail(rules), lower, Head(rules).label)
    ELSE LastMatch(Tail(rules), lower, fallback)

\* The label of the first rule one of whose keywords is in the heading.
RECURSIVE FirstMatch(_, _, _)
FirstMatch(rules, lower, fallback) ==
  IF rules = <<>> THEN fallback
  ELSE IF \E n \in 1..Len(Head(rules).keywords) :
            KeywordIn(Head(rules).keywords[n], lower)
    THEN Head(rules).label
    ELSE FirstMatch(Tail(rules), lower, fallback)

_derive_policy_type(heading) ==
  FirstMatch(POLICY_TYPE_KEYWORDS, LowerLine(heading), "general")

_derive_cabin_class(heading) ==
  FirstMatch(CABIN_CLASS_KEYWORDS, LowerLine(heading), "all")

\* ----------------------------------------------------------------- chunker

\* ^## .+ : the line starts with the marker "##", a space and some text.
IsHeadingLine(line) == Len(line) >= 2 /\ line[1] = "##"

\* pattern.split(text): cut before every heading line.
RECURSIVE SplitSections(_, _, _)
SplitSections(rest, cur, acc) ==
  IF rest = <<>> THEN Append(acc, cur)
  ELSE IF IsHeadingLine(Head(rest))
    THEN SplitSections(Tail(rest), <<Head(rest)>>, Append(acc, cur))
    ELSE SplitSections(Tail(rest), Append(cur, Head(rest)), acc)

\* str.strip() on a section: blank lines at both ends go.
RECURSIVE StripLeft(_)
StripLeft(s) ==
  IF s # <<>> /\ Head(s) = <<>> THEN StripLeft(Tail(s)) ELSE s

RECURSIVE StripRight(_)
StripRight(s) ==
  IF s # <<>> /\ s[Len(s)] = <<>> THEN StripRight(SubSeq(s, 1, Len(s) - 1)) ELSE s

Strip(s) == StripRight(StripLeft(s))

\* lines[0].lstrip("# ").strip()
RECURSIVE LStripMarkers(_)
LStripMarkers(line) ==
  IF line # <<>> /\ Head(line) \in MarkerTokens
    THEN LStripMarkers(Tail(line)) ELSE line

HeadingOf(section) == LStripMarkers(section[1])

RECURSIVE ChunksOf(_)
ChunksOf(raw_sections) ==
  IF raw_sections = <<>> THEN <<>>
  ELSE LET section == Strip(Head(raw_sections))
       IN  IF section = <<>>
             THEN ChunksOf(Tail(raw_sections))
             ELSE << [heading |-> HeadingOf(section), text |-> section] >>
                    \o ChunksOf(Tail(raw_sections))

chunk_markdown(text) == ChunksOf(SplitSections(text, <<>>, <<>>))

\* ------------------------------------------------- embedding and index

\* SentenceTransformer.encode(..., normalize_embeddings=True) on one string:
\* the bag of its lower-cased words.  Two strings with the same words get the
\* same vector, so the embedding is not injective.
RECURSIVE WordsOf(_)
WordsOf(text) ==
  IF text = <<>> THEN {}
  ELSE { Lower(Head(text)[j]) : j \in 1..Len(Head(text)) } \cup WordsOf(Tail(text))

Embed(text) == WordsOf(text)

\* encode(all_texts): one vector per text, in the order of the list.
EncodeAll(texts) == [n \in 1..Len(texts) |-> Embed(texts[n])]

\* Inner product of two unit vectors (cosine similarity, squared to stay in
\* the integers), as a fixed-point number with five decimals.
Score(qv, v) ==
  IF qv = {} \/ v = {} THEN 0
  ELSE (Cardinality(qv \cap v) * Cardinality(qv \cap v) * ScoreOne)
         \div (Cardinality(qv) * Cardinality(v))

\* The score FAISS reports in a slot that has no match.
NoMatchScore == 0 - 1000 * ScoreOne

\* The best position not in `taken`: highest score, lowest position on a tie.
BestOf(vecs, qv, taken) ==
  CHOOSE n \in (1..Len(vecs)) \ taken :
    \A m \in (1..Len(vecs)) \ taken :
      \/ Score(qv, vecs[n]) > Score(qv, vecs[m])
      \/ Score(qv, vecs[n]) = Score(qv, vecs[m]) /\ n <= m

\* IndexFlatIP.search(query_vec, k): k slots of (score, position), best
\* first, positions counted from 0; slots beyond the index size hold -1.
RECURSIVE SearchFrom(_, _, _, _)
SearchFrom(vecs, qv, k, taken) ==
  IF k = 0 THEN <<>>
  ELSE IF Cardinality(taken) >= Len(vecs)
    THEN << [score |-> NoMatchScore, idx |-> NoMatch] >>
           \o SearchFrom(vecs, qv, k - 1, taken)
    ELSE LET n == BestOf(vecs, qv, taken)
         IN  << [score |-> Score(qv, vecs[n]), idx |-> n - 1] >>
               \o SearchFrom(vecs, qv, k - 1, taken \cup {n})

Search(vecs, qv, k) == SearchFrom(vecs, qv, k, {})

\* round(float(score), 4): to four decimals, halves to the even neighbour.
\* The result counts ten-thousandths.
Round4(s) ==
  LET q == s \div 10
      r == s % 10
  IN  IF r > 5 \/ (r = 5 /\ q % 2 = 1) THEN q + 1 ELSE q

\* dict.get(key, default)
Get(rec, key, default) == IF key \in DOMAIN rec THEN rec[key] ELSE default

\* ------------------------------------------------------------ file system

MdSuffix == ".md"

AirBlueMd == [stem |-> "Air Blue", suffix |-> ".md"]
EmiratesMd == [stem |-> "emirates", suffix |-> ".md"]
ReadmeTxt == [stem |-> "README", suffix |-> ".txt"]

\* The names a policies directory may hold, in the order sorted() gives them
\* ('A' < 'R' < 'e').
FileOrder == << AirBlueMd, ReadmeTxt, EmiratesMd >>

PolicyFiles == { AirBlueMd, EmiratesMd }

\* Document contents.
DocBlank == << <<>> >>
DocA == << <<"#", "Emirates">>, <<>>, <<"##", "Baggage">>, <<"fee">>, <<>>,
           <<"##", "Business", "Refunds">> >>
DocB == << <<"##", "Baggage">>, <<"fee">> >>
DocTexts == { DocBlank, DocA, DocB }

NoDoc == [present |-> FALSE, text |-> <<>>]
Doc(text) == [present |-> TRUE, text |-> text]

\* A policies directory: README.txt is always there, each policy file may be.
Corpora ==
  { [f \in PolicyFiles \cup {ReadmeTxt} |->
       IF f = ReadmeTxt THEN Doc(<< <<"Terms">> >>) ELSE c[f]] :
    c \in [PolicyFiles -> {NoDoc} \cup { Doc(t) : t \in DocTexts }] }

\* A persisted artifact: absent, or the data one run wrote (run is a ghost).
Missing == [present |-> FALSE, run |-> 0, data |-> <<>>]
Written(run, data) == [present |-> TRUE, run |-> run, data |-> data]

\* A variant that takes the files in the opposite order (glob without sorted).
GlobMdUnsorted(dir) ==
  SelectSeq(<< EmiratesMd, ReadmeTxt, AirBlueMd >>,
            LAMBDA f : dir[f].present /\ f.suffix = MdSuffix)

\* sorted(POLICIES_DIR.glob("*.md"))
GlobMd(dir) ==
  SelectSeq(FileOrder, LAMBDA f : dir[f].present /\ f.suffix = MdSuffix)

\* ------------------------------------------------------------------ state

VARIABLES
  cfg,        \* what this behaviour may do: [runs, threads, hints, topks, kinds]
  corpus,     \* backend/data/policies: file name -> [present, text]
  disk,       \* backend/rag_store: [dir, index, meta, texts]
  before,     \* ghost: the store as it was when the current run started
  ingest,     \* the running ingest(): [pc, run, md_files, i, all_texts, all_meta, embeddings,
              \*                        rerun (ghost)]
  retr,       \* the retriever module: [status, _index, _metadata, _texts]
  q,          \* query_policy calls: thread -> [pc, question, k, query_vec, hits, pos,
              \*                                chunks, result, overlap (ghost),
              \*                                asked, hint (the caller's arguments),
              \*                                embeds, searches (ghost counters)]
  fn,         \* the last call of a pure helper of ingest.py: [op, arg, out]
  _history,   \* main.py: the conversation history, a list of [role, content]
  req,        \* /api/chat handlers: thread -> [pc, message, response,
              \*                                popped, raised (ghosts)]
  served,     \* ghost: the number of /api/chat requests received so far
  agent       \* one call of run_agent: [pc, start, messages, stop_reason, content, i,
              \*                         tool_results, reply, round, sent, dispatched,
              \*                         stops]
              \*   (start, round, sent, dispatched and stops are ghosts)

\* The state of the Indexer and the Retriever.
ragVars == << cfg, corpus, disk, before, ingest, retr, q >>

\* The state of the chat endpoints.
chatVars == << _history, req, served >>

\* The state outside the Indexer and the Retriever.
nonRagVars == << fn, _history, req, served, agent >>

vars == << cfg, corpus, disk, before, ingest, retr, q, fn, _history, req, served, agent >>

Threads == 1..NumThreads

\* Questions the callers ask, each a one-line string.
Questions == { << <<"Baggage", "fee">> >>, << <<"Emirates", "Business", "Refunds">> >> }

\* The airline argument of _rag_lookup, a line of words.  None and the empty
\* string are both false in "if airline": the model has one value for them.
NoHint == <<>>
Hints == { NoHint, <<"emirates">> }

\* Values of n_results: the smallest, and the default that _rag_lookup passes.
TopKs == { 1, DefaultTopK }

EmptyStore == [dir |-> FALSE, index |-> Missing, meta |-> Missing, texts |-> Missing]

IngestIdle ==
  [pc |-> "idle", run |-> 0, md_files |-> <<>>, i |-> 1,
   all_texts |-> <<>>, all_meta |-> <<>>, embeddings |-> <<>>, rerun |-> FALSE]

RetrieverDown ==
  [status |-> "down", _index |-> <<>>, _metadata |-> <<>>, _texts |-> <<>>]

\* No helper has been called.
NoCall == [op |-> "none", arg |-> <<>>, out |-> <<>>]

\* A handler thread that is not handling a request.
ReqIdle ==
  [pc |-> "idle", message |-> <<>>, response |-> <<>>, popped |-> <<>>,
   raised |-> FALSE]

\* run_agent is not running.
AgentIdle ==
  [pc |-> "idle", start |-> 0, messages |-> <<>>, stop_reason |-> "", content |-> <<>>,
   i |-> 1, tool_results |-> <<>>, reply |-> <<>>, round |-> 0, sent |-> <<>>,
   dispatched |-> <<>>, stops |-> <<>>]

\* The chat endpoints and the agent loop are not running.
AssistantOff ==
  /\ _history = <<>>
  /\ req = [t \in Threads |-> ReqIdle]
  /\ served = 0
  /\ agent = AgentIdle

QueryIdle ==
  [pc |-> "idle", question |-> <<>>, k |-> 0, query_vec |-> {},
   hits |-> <<>>, pos |-> 1, chunks |-> <<>>, result |-> <<>>, overlap |-> FALSE,
   asked |-> <<>>, hint |-> <<>>, embeds |-> 0, searches |-> 0]

InitWith(c) ==
  /\ cfg = c
  /\ corpus \in Corpora
  /\ disk = EmptyStore
  /\ before = EmptyStore
  /\ ingest = IngestIdle
  /\ retr = RetrieverDown
  /\ q = [t \in Threads |-> QueryIdle]
  /\ fn = NoCall
  /\ AssistantOff

\* What a content block of a response is: text, or a tool_use of a tool by
\* its name.
BlockKinds == { "text", "rag_lookup", "no_such_tool" }

\* The Indexer has never run and the Retriever is not loaded; kinds are
\* the content blocks the model may answer with.
RagOffWith(kinds) ==
  /\ cfg = [runs |-> 0, threads |-> 0, hints |-> {}, topks |-> {}, kinds |-> kinds]
  /\ corpus = [f \in PolicyFiles \cup {ReadmeTxt} |-> NoDoc]
  /\ disk = EmptyStore
  /\ before = EmptyStore
  /\ ingest = IngestIdle
  /\ retr = RetrieverDown
  /\ q = [t \in Threads |-> QueryIdle]

RagOff == RagOffWith(BlockKinds)

\* Spec: up to MaxRuns ingestion runs, then one thread of queries.
Init ==
  InitWith([runs |-> MaxRuns, threads |-> 1, hints |-> {NoHint}, topks |-> TopKs,
            kinds |-> {}])

\* SpecConc: one ingestion run, then NumThreads concurrent request threads,
\* whose lookups ask for DefaultTopK records.
InitConc ==
  InitWith([runs |-> 1, threads |-> NumThreads, hints |-> {NoHint},
            topks |-> {DefaultTopK}, kinds |-> {}])

\* SpecHint: one ingestion run, then one thread of lookups with and without
\* an airline hint.
InitHint ==
  InitWith([runs |-> 1, threads |-> 1, hints |-> Hints, topks |-> {DefaultTopK},
            kinds |-> {}])

\* The three artifacts of a store, without the directory.
Artifacts(d) == << d.index, d.meta, d.texts >>

IngestStopped == ingest.pc \in {"idle", "done", "failed"}

\* ---------------------------------------------------------------- Indexer

\* The operator edits the policies directory between runs.
EditCorpus ==
  /\ IngestStopped
  /\ retr.status = "down"
  /\ ingest.run < cfg.runs
  /\ \E f \in PolicyFiles, d \in {NoDoc} \cup { Doc(t) : t \in DocTexts } :
       /\ d # corpus[f]
       /\ corpus' = [corpus EXCEPT ![f] = d]
  /\ ingest' = [IngestIdle EXCEPT !.run = ingest.run]
  /\ UNCHANGED << cfg, disk, before, retr, q, nonRagVars >>

\* ingest(), lines 117-120: load the model, create the store directory.
\* The ghost rerun records that the run before this one succeeded and the
\* policies directory has not been edited since.
IngestStart ==
  /\ IngestStopped
  /\ retr.status = "down"
  /\ ingest.run < cfg.runs
  /\ ingest' = [IngestIdle EXCEPT !.pc = "glob", !.run = ingest.run + 1,
                                  !.rerun = (ingest.pc = "done")]
  /\ disk' = [disk EXCEPT !.dir = TRUE]
  /\ before' = disk
  /\ UNCHANGED << cfg, corpus, retr, q, nonRagVars >>

\* A variant without the check for an empty directory.
NoPolicyFilesUnchecked(md_files) == FALSE

\* if not md_files: raise FileNotFoundError
NoPolicyFiles(md_files) == md_files = <<>>

\* Lines 122-127: list the policy files; stop when there is none.
IngestGlob ==
  /\ ingest.pc = "glob"
  /\ LET md_files == GlobMd(corpus)
     IN  ingest' = [ingest EXCEPT
                      !.md_files = md_files,
                      !.pc = IF NoPolicyFiles(md_files) THEN "failed" ELSE "loop"]
  /\ UNCHANGED << cfg, corpus, disk, before, retr, q, nonRagVars >>

\* AIRLINE_FROM_STEM.get(stem, stem)
AirlineOf(md_path) == Get(AIRLINE_FROM_STEM, md_path.stem, md_path.stem)

\* The metadata record of the n-th chunk this run appends (lines 138-145).
\* uuid4() is modelled as the pair (run, n): never reused.
ChunkMeta(run, n, md_path, heading) ==
  [id |-> << run, n >>,
   airline |-> AirlineOf(md_path),
   policy_type |-> _derive_policy_type(heading),
   cabin_class |-> _derive_cabin_class(heading),
   source_file |-> md_path,
   heading |-> heading]

\* A variant that puts each new text at the front of all_texts while the
\* metadata goes to the end of all_meta.
RECURSIVE AppendChunksTextFirst(_, _, _, _, _)
AppendChunksTextFirst(all_texts, all_meta, chunks, run, md_path) ==
  IF chunks = <<>> THEN [all_texts |-> all_texts, all_meta |-> all_meta]
  ELSE AppendChunksTextFirst(
         << Head(chunks).text >> \o all_texts,
         Append(all_meta,
                [id |-> << run, Len(all_meta) + 1 >>,
                 airline |-> Get(AIRLINE_FROM_STEM, md_path.stem, md_path.stem),
                 policy_type |-> _derive_policy_type(Head(chunks).heading),
                 cabin_class |-> _derive_cabin_class(Head(chunks).heading),
                 source_file |-> md_path,
                 heading |-> Head(chunks).heading]),
         Tail(chunks), run, md_path)

\* The inner loop, lines 136-145: append every chunk of one document to
\* all_texts and all_meta.
RECURSIVE AppendChunks(_, _, _, _, _)
AppendChunks(all_texts, all_meta, chunks, run, md_path) ==
  IF chunks = <<>> THEN [all_texts |-> all_texts, all_meta |-> all_meta]
  ELSE AppendChunks(
         Append(all_texts, Head(chunks).text),
         Append(all_meta,
                ChunkMeta(run, Len(all_meta) + 1, md_path, Head(chunks).heading)),
         Tail(chunks), run, md_path)

\* One pass of the outer loop, lines 129-147: read and chunk one document.
IngestDoc ==
  /\ ingest.pc = "loop"
  /\ LET md_path == ingest.md_files[ingest.i]
         chunks == chunk_markdown(corpus[md_path].text)
         acc == AppendChunks(ingest.all_texts, ingest.all_meta, chunks,
                             ingest.run, md_path)
     IN  ingest' = [ingest EXCEPT
                      !.all_texts = acc.all_texts,
                      !.all_meta = acc.all_meta,
                      !.i = ingest.i + 1,
                      !.pc = IF ingest.i + 1 > Len(ingest.md_files)
                               THEN "embed" ELSE "loop"]
  /\ UNCHANGED << cfg, corpus, disk, before, retr, q, nonRagVars >>

\* Lines 149-158: embed all chunk texts in one batch and build the index.
\* encode([]) gives an array with one axis only, so with no text at all
\* embeddings.shape[1] raises IndexError and the run stops before it writes.
IngestEmbed ==
  /\ ingest.pc = "embed"
  /\ ingest' = IF ingest.all_texts = <<>>
                 THEN [ingest EXCEPT !.pc = "failed"]
                 ELSE [ingest EXCEPT
                         !.embeddings = EncodeAll(ingest.all_texts),
                         !.pc = "write_index"]
  /\ UNCHANGED << cfg, corpus, disk, before, retr, q, nonRagVars >>

\* faiss.write_index(index, str(INDEX_PATH))
IngestWriteIndex ==
  /\ ingest.pc = "write_index"
  /\ disk' = [disk EXCEPT !.index = Written(ingest.run, ingest.embeddings)]
  /\ ingest' = [ingest EXCEPT !.pc = "write_meta"]
  /\ UNCHANGED << cfg, corpus, before, retr, q, nonRagVars >>

\* META_PATH.write_text(json.dumps(all_meta, indent=2))
IngestWriteMeta ==
  /\ ingest.pc = "write_meta"
  /\ disk' = [disk EXCEPT !.meta = Written(ingest.run, ingest.all_meta)]
  /\ ingest' = [ingest EXCEPT !.pc = "write_texts"]
  /\ UNCHANGED << cfg, corpus, before, retr, q, nonRagVars >>

\* A variant that opens texts.json for appending instead of overwriting it.
IngestWriteTextsAppend ==
  /\ ingest.pc = "write_texts"
  /\ disk' = [disk EXCEPT
                !.texts = Written(ingest.run, disk.texts.data \o ingest.all_texts)]
  /\ ingest' = [ingest EXCEPT !.pc = "done"]
  /\ UNCHANGED << cfg, corpus, before, retr, q, nonRagVars >>

\* TEXTS_PATH.write_text(json.dumps(all_texts, indent=2))
IngestWriteTexts ==
  /\ ingest.pc = "write_texts"
  /\ disk' = [disk EXCEPT !.texts = Written(ingest.run, ingest.all_texts)]
  /\ ingest' = [ingest EXCEPT !.pc = "done"]
  /\ UNCHANGED << cfg, corpus, before, retr, q, nonRagVars >>

\* The steps of ingest() that do input or output and so may raise:
\* read_text, encode, and the three writes.  Nothing catches the exception.
IngestRaises ==
  /\ ingest.pc \in {"loop", "embed", "write_index", "write_meta", "write_texts"}
  /\ ingest' = [ingest EXCEPT !.pc = "failed"]
  /\ UNCHANGED << cfg, corpus, disk, before, retr, q, nonRagVars >>

\* -------------------------------------------------------------- Retriever

AnyArtifactMissing(d) ==
  ~ d.index.present \/ ~ d.meta.present \/ ~ d.texts.present

\* Module-level load, lines 35-43: read the three artifacts once.  A missing
\* file raises, the import fails and the process never serves a query.
RetrieverLoad ==
  /\ retr.status = "down"
  /\ IngestStopped
  /\ retr' = IF AnyArtifactMissing(disk)
               THEN [RetrieverDown EXCEPT !.status = "failed"]
               ELSE [status |-> "serving",
                     _index |-> disk.index.data,
                     _metadata |-> disk.meta.data,
                     _texts |-> disk.texts.data]
  /\ UNCHANGED << cfg, corpus, disk, before, ingest, q, nonRagVars >>

\* A variant with one module-level list that all calls collect into.
ChunksShared(t) == 1

\* The list a call collects its records in: chunks is a local of the call.
ChunksOwner(t) == t

InFlight(t) == q[t].pc \in {"encode", "search", "loop"}

\* tools_impl.py line 140: query = f"{airline} {question}" if airline else
\* question.  The hint goes in front of the first line of the question.
RagQuery(airline, question) ==
  IF airline # NoHint
    THEN << airline \o Head(question) >> \o Tail(question)
    ELSE question

\* A caller (_rag_lookup, line 142) calls query_policy(query, n_results).
\* The ghost overlap records that the call ran while another call was in
\* flight.
QueryStart(t) ==
  /\ t <= cfg.threads
  /\ retr.status = "serving"
  /\ ~ InFlight(t)
  /\ \E question \in Questions, k \in cfg.topks, airline \in cfg.hints :
       q' = [u \in Threads |->
               IF u = t
                 THEN [QueryIdle EXCEPT
                         !.pc = "encode", !.k = k,
                         !.question = RagQuery(airline, question),
                         !.asked = question, !.hint = airline,
                         !.overlap = \E v \in Threads \ {t} : InFlight(v)]
               ELSE IF InFlight(u) THEN [q[u] EXCEPT !.overlap = TRUE]
               ELSE q[u]]
  /\ UNCHANGED << cfg, corpus, disk, before, ingest, retr, nonRagVars >>

\* Line 66: query_vec = _model.encode([question], normalize_embeddings=True)
\* The ghost embeds counts the calls of encode this call of query_policy made.
QueryEncode(t) ==
  /\ q[t].pc = "encode"
  /\ q' = [q EXCEPT ![t].query_vec = Embed(q[t].question), ![t].pc = "search",
                    ![t].embeds = q[t].embeds + 1]
  /\ UNCHANGED << cfg, corpus, disk, before, ingest, retr, nonRagVars >>

\* A variant that calls encode a second time when the first call raised.
QueryEncodeRaisesRetrying(t) ==
  /\ q[t].pc = "encode"
  /\ q' = [q EXCEPT ![t].embeds = q[t].embeds + 1,
                    ![t].pc = IF q[t].embeds = 0 THEN "encode" ELSE "failed"]
  /\ UNCHANGED << cfg, corpus, disk, before, ingest, retr, nonRagVars >>

\* Line 66, encode raises (out of memory, a broken model): query_policy has
\* no try, the exception leaves the call and its locals are gone.
QueryEncodeRaises(t) ==
  /\ q[t].pc = "encode"
  /\ q' = [q EXCEPT ![t] = [QueryIdle EXCEPT !.pc = "failed",
                                             !.embeds = q[t].embeds + 1]]
  /\ UNCHANGED << cfg, corpus, disk, before, ingest, retr, nonRagVars >>

\* Line 67, search raises: the exception leaves the call.
QuerySearchRaises(t) ==
  /\ q[t].pc = "search"
  /\ q' = [q EXCEPT ![t] = [QueryIdle EXCEPT !.pc = "failed",
                                             !.embeds = q[t].embeds,
                                             !.searches = q[t].searches + 1]]
  /\ UNCHANGED << cfg, corpus, disk, before, ingest, retr, nonRagVars >>

\* Lines 67-69: scores, indices = _index.search(query_vec, n_results); chunks = []
\* The ghost searches counts the calls of search.
QuerySearch(t) ==
  /\ q[t].pc = "search"
  /\ q' = [q EXCEPT
             ![t].searches = q[t].searches + 1,
             ![t].hits = Search(retr._index, q[t].query_vec, q[t].k),
             ![t].pos = 1,
             ![t].pc = "loop",
             ![ChunksOwner(t)].chunks = <<>>]
  /\ UNCHANGED << cfg, corpus, disk, before, ingest, retr, nonRagVars >>

\* _metadata[idx] and _texts[idx]: positions count from 0.
InRange(list, idx) == 0 <= idx /\ idx < Len(list)
ItemAt(list, idx) == list[idx + 1]

\* Lines 74-80: the record of one valid hit.
ResultRecord(meta, text, score) ==
  [text |-> text,
   airline |-> Get(meta, "airline", "unknown"),
   policy_type |-> Get(meta, "policy_type", "general"),
   cabin_class |-> Get(meta, "cabin_class", "all"),
   score |-> Round4(score)]

\* The body of the loop, lines 70-80, on one (score, idx) pair: "skip" for
\* -1, "raise" when _metadata[idx] or _texts[idx] is out of range
\* (IndexError), else "append" with the record.
JoinHit(hit, metadata, texts) ==
  IF hit.idx = NoMatch
    THEN [op |-> "skip", rec |-> <<>>]
  ELSE IF ~ InRange(metadata, hit.idx) \/ ~ InRange(texts, hit.idx)
    THEN [op |-> "raise", rec |-> <<>>]
    ELSE [op |-> "append",
          rec |-> ResultRecord(ItemAt(metadata, hit.idx), ItemAt(texts, hit.idx),
                               hit.score)]

\* A variant of the loop that consumes the metadata entry it has joined
\* (_metadata.pop(0) in place of _metadata[idx]).
QueryLoopConsuming(t) ==
  /\ q[t].pc = "loop"
  /\ LET j == JoinHit(q[t].hits[q[t].pos], retr._metadata, retr._texts)
         next == IF j.op = "raise" THEN "raised"
                 ELSE IF q[t].pos + 1 > Len(q[t].hits) THEN "done" ELSE "loop"
         chunks == IF j.op = "append" THEN Append(q[t].chunks, j.rec) ELSE q[t].chunks
     IN  /\ q' = [q EXCEPT
                    ![t].chunks = chunks,
                    ![t].pos = q[t].pos + 1,
                    ![t].pc = next,
                    ![t].result = IF next = "done" THEN chunks ELSE <<>>]
         /\ retr' = IF j.op = "append"
                      THEN [retr EXCEPT !._metadata = Tail(retr._metadata)]
                      ELSE retr
  /\ UNCHANGED << cfg, corpus, disk, before, ingest, nonRagVars >>

\* A variant of the loop that puts each new record in front of the list
\* (chunks.insert(0, ...) in place of chunks.append(...)).
QueryLoopPrepending(t) ==
  /\ q[t].pc = "loop"
  /\ LET j == JoinHit(q[t].hits[q[t].pos], retr._metadata, retr._texts)
         o == ChunksOwner(t)
         next == IF j.op = "raise" THEN "raised"
                 ELSE IF q[t].pos + 1 > Len(q[t].hits) THEN "done" ELSE "loop"
         chunks == IF j.op = "append" THEN << j.rec >> \o q[o].chunks ELSE q[o].chunks
     IN  q' = [q EXCEPT
                 ![o].chunks = chunks,
                 ![t].pos = q[t].pos + 1,
                 ![t].pc = next,
                 ![t].result = IF next = "done" THEN chunks ELSE <<>>]
  /\ UNCHANGED << cfg, corpus, disk, before, ingest, retr, nonRagVars >>

\* A variant of the loop that drops the records of another airline than the
\* one the caller named.
QueryLoopFiltering(t) ==
  /\ q[t].pc = "loop"
  /\ LET j == JoinHit(q[t].hits[q[t].pos], retr._metadata, retr._texts)
         o == ChunksOwner(t)
         next == IF j.op = "raise" THEN "raised"
                 ELSE IF q[t].pos + 1 > Len(q[t].hits) THEN "done" ELSE "loop"
         keep == j.op = "append" /\ (q[t].hint = NoHint \/ q[t].hint = << j.rec.airline >>)
         chunks == IF keep THEN Append(q[o].chunks, j.rec) ELSE q[o].chunks
     IN  q' = [q EXCEPT
                 ![o].chunks = chunks,
                 ![t].pos = q[t].pos + 1,
                 ![t].pc = next,
                 ![t].result = IF next = "done" THEN chunks ELSE <<>>]
  /\ UNCHANGED << cfg, corpus, disk, before, ingest, retr, nonRagVars >>

\* One pass of the loop; after the last pair the call returns chunks
\* (line 82).  An IndexError ends the call with no result.
QueryLoop(t) ==
  /\ q[t].pc = "loop"
  /\ LET j == JoinHit(q[t].hits[q[t].pos], retr._metadata, retr._texts)
         o == ChunksOwner(t)
         next == IF j.op = "raise" THEN "raised"
                 ELSE IF q[t].pos + 1 > Len(q[t].hits) THEN "done" ELSE "loop"
         chunks == IF j.op = "append" THEN Append(q[o].chunks, j.rec) ELSE q[o].chunks
     IN  q' = [q EXCEPT
                 ![o].chunks = chunks,
                 ![t].pos = q[t].pos + 1,
                 ![t].pc = next,
                 ![t].result = IF next = "done" THEN chunks ELSE <<>>]
  /\ UNCHANGED << cfg, corpus, disk, before, ingest, retr, nonRagVars >>

\* query_policy run from start to end with nothing in between: the hits are
\* joined one after the other until one raises.
RECURSIVE JoinAll(_, _, _, _)
JoinAll(hits, metadata, texts, chunks) ==
  IF hits = <<>> THEN [raised |-> FALSE, chunks |-> chunks]
  ELSE LET j == JoinHit(Head(hits), metadata, texts)
       IN  IF j.op = "raise" THEN [raised |-> TRUE, chunks |-> <<>>]
           ELSE JoinAll(Tail(hits), metadata, texts,
                        IF j.op = "append" THEN Append(chunks, j.rec) ELSE chunks)

QueryAlone(question, k) ==
  JoinAll(Search(retr._index, Embed(question), k), retr._metadata, retr._texts, <<>>)

\* ------------------------------------------------------------------- Next

Next ==
  \/ EditCorpus
  \/ IngestStart
  \/ IngestGlob
  \/ IngestDoc
  \/ IngestEmbed
  \/ IngestWriteIndex
  \/ IngestWriteMeta
  \/ IngestWriteTexts
  \/ IngestRaises
  \/ RetrieverLoad
  \/ \E t \in Threads : QueryStart(t)
  \/ \E t \in Threads : QueryEncode(t)
  \/ \E t \in Threads : QueryEncodeRaises(t)
  \/ \E t \in Threads : QuerySearch(t)
  \/ \E t \in Threads : QuerySearchRaises(t)
  \/ \E t \in Threads : QueryLoop(t)

Spec == Init /\ [][Next]_vars

SpecConc == InitConc /\ [][Next]_vars

SpecHint == InitHint /\ [][Next]_vars

\* ------------------------------------------------- the helpers on their own

\* Number of lines of the documents chunk_markdown is applied to.
MaxLines == 3
\* Number of words of the headings the label rules are applied to.
MaxWords == 2

SeqsUpTo(S, n) == UNION { [1..m -> S] : m \in 0..n }

\* Lines of a markdown document: blank, body, title, subsection, headings.
SampleLines ==
  { <<>>, <<"fee">>, <<"#", "Emirates">>, <<"###", "Terms">>,
    <<"##", "Baggage">>, <<"##", "Business", "Refunds">> }

SampleTexts == SeqsUpTo(SampleLines, MaxLines)

\* Words of a section heading.
HeadingWords ==
  { "Baggage", "Refunds", "Business", "First", "Economy", "Terms", "Check", "in" }

SampleHeadings == SeqsUpTo(HeadingWords, MaxWords)

\* Line 134: chunks = chunk_markdown(text), once in a behaviour.
CallChunkMarkdown ==
  /\ fn = NoCall
  /\ \E text \in SampleTexts :
       fn' = [op |-> "chunk_markdown", arg |-> text, out |-> chunk_markdown(text)]
  /\ UNCHANGED << ragVars, chatVars, agent >>

\* Lines 141-142: the two labels of one heading, once in a behaviour.
CallDerive ==
  /\ fn = NoCall
  /\ \E heading \in SampleHeadings :
       fn' = [op |-> "derive", arg |-> heading,
              out |-> [policy_type |-> _derive_policy_type(heading),
                       cabin_class |-> _derive_cabin_class(heading)]]
  /\ UNCHANGED << ragVars, chatVars, agent >>

InitText ==
  /\ RagOff
  /\ fn = NoCall
  /\ AssistantOff

NextText == CallChunkMarkdown \/ CallDerive

\* SpecText: chunk_markdown and the label rules applied to sample inputs.
SpecText == InitText /\ [][NextText]_vars

\* ------------------------------------------------------- the chat endpoints

\* main.py line 94: the history keeps at most 40 messages.
MaxHistory == 40
\* Number of /api/chat requests a behaviour of SpecChat receives.
MaxRequests == 3

\* A history left by earlier turns: user and assistant messages in turn.
OldMessage(n) ==
  [role |-> IF n % 2 = 1 THEN "user" ELSE "assistant", content |-> << "old", n >>]

OldHistory(len) == [n \in 1..len |-> OldMessage(n)]

\* Lengths of the history when the behaviour starts: empty, one turn, one
\* turn short of full, full.
StartLengths == { 0, 2, MaxHistory - 2, MaxHistory }

UserMessage(message) == [role |-> "user", content |-> message]

AssistantMessage(reply) == [role |-> "assistant", content |-> reply]

\* A variant that keeps the oldest messages (_history[:40]).
FirstN(list, n) == SubSeq(list, 1, IF Len(list) <= n THEN Len(list) ELSE n)

\* list[-n:]
LastN(list, n) ==
  IF Len(list) <= n THEN list ELSE SubSeq(list, Len(list) - n + 1, Len(list))

\* Line 90: what the handler returns when run_agent has raised.
FallbackResponse ==
  [reply |-> << "Something went wrong, please try again." >>, reasoning |-> <<>>]

\* The handler thread is inside chat().
InProgress(t) == req[t].pc \in {"agent", "truncate"}

\* Line 82: a request enters and appends its user message.
ChatAppendUser(t) ==
  /\ ~ InProgress(t)
  /\ served < MaxRequests
  /\ LET message == << "message", served + 1 >>
     IN  /\ _history' = Append(_history, UserMessage(message))
         /\ req' = [req EXCEPT ![t] = [ReqIdle EXCEPT !.pc = "agent", !.message = message]]
  /\ served' = served + 1
  /\ UNCHANGED << ragVars, fn, agent >>

\* Lines 85 and 92: run_agent returns a reply, the handler appends it.
ChatAppendReply(t) ==
  /\ req[t].pc = "agent"
  /\ _history' = Append(_history, AssistantMessage(<< "reply", req[t].message[2] >>))
  /\ req' = [req EXCEPT ![t].pc = "truncate"]
  /\ UNCHANGED << ragVars, fn, served, agent >>

\* Lines 94-96: _history[:] = _history[-40:], one statement with no call in
\* it, then the handler returns the reply.
ChatTruncate(t) ==
  /\ req[t].pc = "truncate"
  /\ _history' = LastN(_history, MaxHistory)
  /\ req' = [req EXCEPT ![t].pc = "returned",
                        ![t].response = [reply |-> << "reply", req[t].message[2] >>,
                                         reasoning |-> << "reasoning" >>]]
  /\ UNCHANGED << ragVars, fn, served, agent >>

\* A variant of the except clause that returns the fallback reply and leaves
\* the history as it is.
ChatRollbackKeeping(t) ==
  /\ req[t].pc = "agent"
  /\ req' = [req EXCEPT ![t].pc = "fallback", ![t].raised = TRUE,
                        ![t].response = FallbackResponse]
  /\ UNCHANGED << ragVars, fn, _history, served, agent >>

\* Lines 86-90: run_agent raises, the handler pops the last entry of the
\* history and returns the fallback reply.  pop() on an empty list raises
\* IndexError inside the except clause, which leaves the handler with no
\* response.  The ghost raised records that run_agent raised.
ChatRollback(t) ==
  /\ req[t].pc = "agent"
  /\ IF _history = <<>>
       THEN /\ req' = [req EXCEPT ![t].pc = "crashed", ![t].raised = TRUE]
            /\ UNCHANGED _history
       ELSE /\ _history' = SubSeq(_history, 1, Len(_history) - 1)
            /\ req' = [req EXCEPT ![t].pc = "fallback", ![t].raised = TRUE,
                                  ![t].response = FallbackResponse,
                                  ![t].popped = _history[Len(_history)]]
  /\ UNCHANGED << ragVars, fn, served, agent >>

\* Lines 99-103: /api/reset clears the history.
Reset ==
  /\ _history' = <<>>
  /\ UNCHANGED << ragVars, fn, req, served, agent >>

InitChat ==
  /\ RagOff
  /\ fn = NoCall
  /\ \E len \in StartLengths : _history = OldHistory(len)
  /\ req = [t \in Threads |-> ReqIdle]
  /\ served = 0
  /\ agent = AgentIdle

NextChat ==
  \/ \E t \in Threads : ChatAppendUser(t)
  \/ \E t \in Threads : ChatAppendReply(t)
  \/ \E t \in Threads : ChatTruncate(t)
  \/ \E t \in Threads : ChatRollback(t)
  \/ Reset

\* SpecChat: /api/chat requests on NumThreads handler threads, and /api/reset.
SpecChat == InitChat /\ [][NextChat]_vars

NoneInProgress == \A t \in Threads : ~ InProgress(t)

\* A /api/chat request that arrives when no other request is being handled.
ChatAppendUserAlone(t) == NoneInProgress /\ ChatAppendUser(t)

\* A /api/reset request that arrives when no request is being handled.
ResetAlone == NoneInProgress /\ Reset

NextChatSeq ==
  \/ \E t \in Threads : ChatAppendUserAlone(t)
  \/ \E t \in Threads : ChatAppendReply(t)
  \/ \E t \in Threads : ChatTruncate(t)
  \/ \E t \in Threads : ChatRollback(t)
  \/ ResetAlone

\* SpecChatSeq: the requests come one after the other, each handled to its
\* end before the next one starts.
SpecChatSeq == InitChat /\ [][NextChatSeq]_vars

\* ------------------------------------------------------------ the agent loop

\* Number of responses the model gives in one call of run_agent.
MaxRounds == 2
\* Number of content blocks of one response.
MaxBlocks == 2

\* The names _dispatch_tool routes to an implementation.
KnownTools == { "flight_search", "rag_lookup", "send_email" }

\* response.content for a sequence of kinds; the API gives every tool_use
\* block an id of its own, here the round and the position.
Content(kinds, round) ==
  [p \in 1..Len(kinds) |->
     IF kinds[p] = "text"
       THEN [type |-> "text", text |-> << "text", round, p >>]
       ELSE [type |-> "tool_use", id |-> << round, p >>, name |-> kinds[p]]]

\* Lines 166-187: the string a tool call returns.
_dispatch_tool(tool_name) ==
  IF tool_name \in KnownTools
    THEN << "output of", tool_name >>
    ELSE << "Unknown tool:", tool_name >>

\* Lines 241-244: the text of the first text block, else "".
FinalText(content) ==
  LET texts == SelectSeq(content, LAMBDA b : b.type = "text")
  IN  IF texts = <<>> THEN <<>> ELSE texts[1].text

\* Lines 279-280: the reply for an unexpected stop_reason.
UnexpectedReply == << "I encountered an unexpected issue. Please try again." >>

\* Line 212: run_agent(message, history) starts; messages = list(history),
\* where history ends with the new user message.
AgentStart ==
  /\ agent.pc = "idle"
  /\ \E len \in { 0, 2 } :
       LET history == Append(OldHistory(len), UserMessage(<< "message", 1 >>))
       IN  agent' = [AgentIdle EXCEPT !.pc = "create", !.messages = history,
                                      !.start = Len(history)]
  /\ UNCHANGED << ragVars, fn, chatVars >>

\* Lines 216-222 and 238-245: the model answers with stop_reason end_turn;
\* run_agent returns the first text.
AgentEndTurn ==
  /\ agent.pc = "create"
  /\ agent.round < MaxRounds
  /\ \E kinds \in SeqsUpTo(cfg.kinds, MaxBlocks) :
       LET content == Content(kinds, agent.round + 1)
       IN  agent' = [agent EXCEPT
                       !.sent = agent.messages, !.round = agent.round + 1,
                       !.stop_reason = "end_turn", !.content = content,
                       !.stops = Append(agent.stops, "end_turn"),
                       !.reply = FinalText(content), !.pc = "returned"]
  /\ UNCHANGED << ragVars, fn, chatVars >>

\* A variant of the loop with a limit of one tool round: a second tool_use
\* response makes run_agent return the fixed reply.
AgentToolUseCapped ==
  /\ agent.pc = "create"
  /\ agent.round < MaxRounds
  /\ \E kinds \in SeqsUpTo(cfg.kinds, MaxBlocks) :
       LET content == Content(kinds, agent.round + 1)
       IN  agent' =
             IF agent.round >= 1
               THEN [agent EXCEPT
                       !.sent = agent.messages, !.round = agent.round + 1,
                       !.stop_reason = "tool_use", !.content = content,
                       !.stops = Append(agent.stops, "tool_use"),
                       !.reply = UnexpectedReply, !.pc = "returned"]
               ELSE [agent EXCEPT
                       !.sent = agent.messages, !.round = agent.round + 1,
                       !.stop_reason = "tool_use", !.content = content,
                       !.stops = Append(agent.stops, "tool_use"),
                       !.messages = Append(agent.messages, AssistantMessage(content)),
                       !.tool_results = <<>>, !.i = 1, !.pc = "dispatch"]
  /\ UNCHANGED << ragVars, fn, chatVars >>

\* Lines 216-222 and 250-255: the model answers with stop_reason tool_use;
\* the assistant message is appended and tool_results starts empty.  The
\* ghost stops lists the stop reasons the model has given in this call.
AgentToolUse ==
  /\ agent.pc = "create"
  /\ agent.round < MaxRounds
  /\ \E kinds \in SeqsUpTo(cfg.kinds, MaxBlocks) :
       LET content == Content(kinds, agent.round + 1)
       IN  agent' = [agent EXCEPT
                       !.sent = agent.messages, !.round = agent.round + 1,
                       !.stop_reason = "tool_use", !.content = content,
                       !.stops = Append(agent.stops, "tool_use"),
                       !.messages = Append(agent.messages, AssistantMessage(content)),
                       !.tool_results = <<>>, !.i = 1, !.pc = "dispatch"]
  /\ UNCHANGED << ragVars, fn, chatVars >>

\* Lines 216-222 and 277-281: any other stop_reason; run_agent returns the
\* fixed reply.
AgentUnexpectedStop ==
  /\ agent.pc = "create"
  /\ agent.round < MaxRounds
  /\ \E kinds \in SeqsUpTo(cfg.kinds, MaxBlocks), stop \in { "max_tokens", "stop_sequence" } :
       agent' = [agent EXCEPT
                   !.sent = agent.messages, !.round = agent.round + 1,
                   !.stop_reason = stop, !.content = Content(kinds, agent.round + 1),
                   !.stops = Append(agent.stops, stop),
                   !.reply = UnexpectedReply, !.pc = "returned"]
  /\ UNCHANGED << ragVars, fn, chatVars >>

\* Line 216: messages.create raises (network, API error); run_agent has no
\* try, the exception leaves it.
AgentCreateRaises ==
  /\ agent.pc = "create"
  /\ agent.round < MaxRounds
  /\ agent' = [agent EXCEPT !.sent = agent.messages, !.round = agent.round + 1,
                            !.pc = "raised"]
  /\ UNCHANGED << ragVars, fn, chatVars >>

\* A variant of the loop that leaves it after the first tool call (break).
AgentDispatchFirstOnly ==
  /\ agent.pc = "dispatch"
  /\ agent.i <= Len(agent.content)
  /\ LET block == agent.content[agent.i]
     IN  IF block.type # "tool_use"
           THEN agent' = [agent EXCEPT !.i = agent.i + 1]
           ELSE agent' = [agent EXCEPT
                            !.i = Len(agent.content) + 1,
                            !.dispatched = Append(agent.dispatched, block.id),
                            !.tool_results =
                               Append(agent.tool_results,
                                      [type |-> "tool_result", tool_use_id |-> block.id,
                                       content |-> _dispatch_tool(block.name)])]
  /\ UNCHANGED << ragVars, fn, chatVars >>

\* Lines 256-267: one pass of the loop over response.content.  A block that
\* is not a tool_use is skipped; a tool_use is dispatched and its result
\* appended to tool_results.  The ghost dispatched lists the ids dispatched.
AgentDispatch ==
  /\ agent.pc = "dispatch"
  /\ agent.i <= Len(agent.content)
  /\ LET block == agent.content[agent.i]
     IN  IF block.type # "tool_use"
           THEN agent' = [agent EXCEPT !.i = agent.i + 1]
           ELSE agent' = [agent EXCEPT
                            !.i = agent.i + 1,
                            !.dispatched = Append(agent.dispatched, block.id),
                            !.tool_results =
                               Append(agent.tool_results,
                                      [type |-> "tool_result", tool_use_id |-> block.id,
                                       content |-> _dispatch_tool(block.name)])]
  /\ UNCHANGED << ragVars, fn, chatVars >>

\* Line 260: the tool implementation raises (a missing key of tool_input, a
\* failure inside query_policy); the exception leaves run_agent.
AgentDispatchRaises ==
  /\ agent.pc = "dispatch"
  /\ agent.i <= Len(agent.content)
  /\ agent.content[agent.i].type = "tool_use"
  /\ agent.content[agent.i].name \in KnownTools
  /\ agent' = [agent EXCEPT !.dispatched = Append(agent.dispatched, agent.content[agent.i].id),
                            !.pc = "raised"]
  /\ UNCHANGED << ragVars, fn, chatVars >>

\* Lines 270-272: after the last block the results go into one user turn and
\* the loop calls the model again.
AgentAppendResults ==
  /\ agent.pc = "dispatch"
  /\ agent.i > Len(agent.content)
  /\ agent' = [agent EXCEPT
                  !.messages = Append(agent.messages,
                                      [role |-> "user", content |-> agent.tool_results]),
                  !.pc = "create"]
  /\ UNCHANGED << ragVars, fn, chatVars >>

InitAgent ==
  /\ RagOff
  /\ fn = NoCall
  /\ AssistantOff

NextAgent ==
  \/ AgentStart
  \/ AgentEndTurn
  \/ AgentToolUse
  \/ AgentUnexpectedStop
  \/ AgentCreateRaises
  \/ AgentDispatch
  \/ AgentDispatchRaises
  \/ AgentAppendResults

\* SpecAgent: one call of run_agent against a model that answers anything.
SpecAgent == InitAgent /\ [][NextAgent]_vars

\* SpecAgentFair: the same, and the thread that runs run_agent keeps running:
\* a step of the loop that can be taken is taken.  The model may still stop
\* answering (the round bound), so fairness is on the steps of the tool loop.
\* The model answers with text and rag_lookup blocks.
InitAgentFair ==
  /\ RagOffWith({ "text", "rag_lookup" })
  /\ fn = NoCall
  /\ AssistantOff

SpecAgentFair ==
  /\ InitAgentFair
  /\ [][NextAgent]_vars
  /\ WF_vars(AgentDispatch)
  /\ WF_vars(AgentAppendResults)

\* ------------------------------------------------------ claims: the store

\* The chunks of a policies directory, document by document in sorted order,
\* each with the file it came from.
RECURSIVE ChunksOfFiles(_, _)
ChunksOfFiles(dir, files) ==
  IF files = <<>> THEN <<>>
  ELSE LET cs == chunk_markdown(dir[Head(files)].text)
       IN  [n \in 1..Len(cs) |->
              [file |-> Head(files), heading |-> cs[n].heading, text |-> cs[n].text]]
             \o ChunksOfFiles(dir, Tail(files))

CorpusChunks(dir) == ChunksOfFiles(dir, GlobMd(dir))

\* All three artifacts were written by the same run (or none exists).
SameRun(d) == d.index.run = d.meta.run /\ d.meta.run = d.texts.run

SameLength(index, metadata, texts) ==
  Len(index) = Len(metadata) /\ Len(metadata) = Len(texts)

\* Position n of the store describes one chunk of the directory: the vector
\* is the embedding of the text, and the metadata comes from that chunk's
\* heading and file.
DescribesOneChunk(d, dir, n) ==
  LET text == d.texts.data[n]
      meta == d.meta.data[n]
  IN  /\ d.index.data[n] = Embed(text)
      /\ meta.heading = HeadingOf(text)
      /\ meta.policy_type = _derive_policy_type(HeadingOf(text))
      /\ meta.cabin_class = _derive_cabin_class(HeadingOf(text))
      /\ meta.airline = AirlineOf(meta.source_file)
      /\ \E c \in 1..Len(CorpusChunks(dir)) :
           /\ CorpusChunks(dir)[c].file = meta.source_file
           /\ CorpusChunks(dir)[c].text = text
           /\ CorpusChunks(dir)[c].heading = meta.heading

\* The hits a call has gone through so far that are not -1.
ValidHits(hits, upto) ==
  SelectSeq(SubSeq(hits, 1, upto), LAMBDA h : h.idx # NoMatch)

\* Every record a call has collected holds the text and the labels stored at
\* the position the index returned for it.
ReadsAtReturnedPosition(t) ==
  LET done == IF q[t].pc = "done" THEN Len(q[t].hits) ELSE q[t].pos - 1
      valid == ValidHits(q[t].hits, done)
  IN  /\ Len(q[t].chunks) = Len(valid)
      /\ \A j \in 1..Len(valid) :
           LET n == valid[j].idx + 1
           IN  /\ q[t].chunks[j].text = retr._texts[n]
               /\ q[t].chunks[j].airline = retr._metadata[n].airline
               /\ q[t].chunks[j].policy_type = retr._metadata[n].policy_type
               /\ q[t].chunks[j].cabin_class = retr._metadata[n].cabin_class

\* C1: after a successful run of ingest() the index, the metadata array and
\* the text array have the same length, every position holds the vector,
\* metadata and text of one and the same chunk, and query_policy reads text
\* and metadata at exactly the position the index returned.
C1_Alignment ==
  /\ ingest.pc = "done" =>
       /\ SameLength(disk.index.data, disk.meta.data, disk.texts.data)
       /\ \A n \in 1..Len(disk.texts.data) : DescribesOneChunk(disk, corpus, n)
  /\ \A t \in Threads :
       q[t].pc \in {"loop", "done"} => ReadsAtReturnedPosition(t)

\* A successful run stored several chunks and a query joined two of them.
C1_Witness ==
  /\ ingest.pc = "done"
  /\ Len(disk.texts.data) >= 3
  /\ q[1].pc = "done"
  /\ Len(q[1].result) >= 2
  /\ q[1].result[1].text # q[1].result[2].text

\* C2: whenever ingest() has stopped, by success or by an error at any step,
\* the three persisted artifacts belong to the same run: none is missing
\* while another exists, and none is older than another.
C2_AllOrNothing == IngestStopped => SameRun(disk)

\* C3: a process whose store lacked an artifact at load never serves, and a
\* serving retriever holds a whole store: three arrays of one length whose
\* entries at each position belong together, as one ingestion run writes
\* them.
C3_NeverServesPartialStore ==
  /\ (retr.status # "down" /\ AnyArtifactMissing(disk)) =>
       /\ retr.status = "failed"
       /\ \A t \in Threads : q[t].pc = "idle"
  /\ retr.status = "serving" =>
       /\ SameLength(retr._index, retr._metadata, retr._texts)
       /\ \A n \in 1..Len(retr._texts) :
            /\ retr._index[n] = Embed(retr._texts[n])
            /\ retr._metadata[n].heading = HeadingOf(retr._texts[n])

\* A document the running ingest() has read gave no chunk.
SawZeroChunkDocument ==
  \E n \in 1..Len(ingest.md_files) :
    /\ n < ingest.i
    /\ chunk_markdown(corpus[ingest.md_files[n]].text) = <<>>

WrittenByThisRun ==
  \E a \in { disk.index, disk.meta, disk.texts } : a.present /\ a.run = ingest.run

\* C4: a run that met a document with zero chunks stops with an error and
\* writes none of the three artifacts: the document is not skipped while
\* the chunks of the other documents are indexed.
C4_ZeroChunkDocumentAborts ==
  SawZeroChunkDocument => (ingest.pc # "done" /\ ~ WrittenByThisRun)

\* C5: with no policy document in the source directory, ingest() stops with
\* an error before it builds anything, and the three artifacts are what they
\* were before the run.
C5_NoDocumentsNoWrite ==
  (ingest.pc \notin {"idle", "glob"} /\ GlobMd(corpus) = <<>>) =>
    /\ ingest.pc = "failed"
    /\ ingest.all_texts = <<>> /\ ingest.all_meta = <<>> /\ ingest.embeddings = <<>>
    /\ Artifacts(disk) = Artifacts(before)

\* A run on an empty directory failed and an earlier store is still whole.
C5_Witness ==
  /\ ingest.pc = "failed"
  /\ GlobMd(corpus) = <<>>
  /\ before.index.present /\ before.meta.present /\ before.texts.present
  /\ Len(disk.texts.data) >= 1
  /\ Artifacts(disk) = Artifacts(before)

\* The texts of a sequence of chunks.
TextsOf(chunks) == [n \in 1..Len(chunks) |-> chunks[n].text]

\* A store holds exactly the chunks of a directory, written by one run.
HoldsExactly(d, dir, run) ==
  LET cs == CorpusChunks(dir)
  IN  /\ d.index.run = run /\ d.meta.run = run /\ d.texts.run = run
      /\ d.texts.data = TextsOf(cs)
      /\ d.index.data = EncodeAll(TextsOf(cs))
      /\ Len(d.meta.data) = Len(cs)
      /\ \A n \in 1..Len(cs) :
           /\ d.meta.data[n].id[1] = run
           /\ d.meta.data[n].source_file = cs[n].file
           /\ d.meta.data[n].heading = cs[n].heading

\* C6: after a second (or later) successful run the store holds only the
\* chunks of the directory as that run found it, in all three artifacts, and
\* a retriever loaded afterwards returns no text that is not a chunk of it.
C6_RebuildReplaces ==
  (ingest.pc = "done" /\ ingest.run >= 2) =>
    /\ HoldsExactly(disk, corpus, ingest.run)
    /\ retr.status = "serving" =>
         \A t \in Threads : \A j \in 1..Len(q[t].result) :
           \E c \in 1..Len(CorpusChunks(corpus)) :
             CorpusChunks(corpus)[c].text = q[t].result[j].text

\* The run replaced a store that held a text the new directory does not
\* have, and a query on the reloaded store returned records.
C6_Witness ==
  /\ ingest.pc = "done" /\ ingest.run >= 2
  /\ before.texts.present
  /\ \E n \in 1..Len(before.texts.data) :
       \A c \in 1..Len(CorpusChunks(corpus)) :
         CorpusChunks(corpus)[c].text # before.texts.data[n]
  /\ q[1].pc = "done" /\ Len(q[1].result) >= 1

\* ---------------------------------------------------- claims: the queries

\* C7: query_policy is read-only: no step of a call changes the loaded
\* index, metadata array or text array, or the store on disk, so after any
\* sequence of calls they are what they were when the retriever was loaded.
C7_QueryReadOnly ==
  [][(q' # q) => (retr' = retr /\ disk' = disk)]_vars

\* A call has returned records and the loaded arrays still equal the store.
C7_Witness ==
  /\ retr.status = "serving"
  /\ q[1].pc = "done"
  /\ Len(q[1].result) >= 2
  /\ retr._index = disk.index.data
  /\ retr._metadata = disk.meta.data
  /\ retr._texts = disk.texts.data

\* C8: under every interleaving of concurrent calls, a call that returns
\* returns what the same call returns when it runs alone on the loaded
\* state, and a call raises only if it raises alone.
C8_SameAsAlone ==
  \A t \in Threads :
    /\ q[t].pc = "done" =>
         /\ ~ QueryAlone(q[t].question, q[t].k).raised
         /\ q[t].result = QueryAlone(q[t].question, q[t].k).chunks
    /\ q[t].pc = "raised" => QueryAlone(q[t].question, q[t].k).raised

\* Two calls with different questions overlapped and both returned records.
C8_Witness ==
  /\ q[1].pc = "done" /\ q[1].overlap /\ Len(q[1].result) >= 2
  /\ q[2].pc = "done" /\ q[2].overlap /\ Len(q[2].result) >= 2
  /\ q[1].question # q[2].question
  /\ q[1].result # q[2].result

Min(a, b) == IF a <= b THEN a ELSE b

Finished(t) == q[t].pc \in {"done", "raised"}

\* C9: every call returns, without an error, exactly
\* min(top_k, corpus size, valid positions) records and never more than top_k.
C9_ResultCount ==
  \A t \in Threads :
    Finished(t) =>
      /\ q[t].pc = "done"
      /\ Len(q[t].result) =
           Min(q[t].k, Min(Len(retr._index),
                           Len(ValidHits(q[t].hits, Len(q[t].hits)))))
      /\ Len(q[t].result) <= q[t].k

\* The labels the claim asks for at position idx: those stored there, each
\* replaced by its fallback when the field or the whole entry is missing.
LabelsOrFallback(metadata, idx) ==
  LET meta == IF InRange(metadata, idx) THEN ItemAt(metadata, idx) ELSE <<>>
  IN  [airline |-> Get(meta, "airline", "unknown"),
       policy_type |-> Get(meta, "policy_type", "general"),
       cabin_class |-> Get(meta, "cabin_class", "all")]

\* C10: a call never fails because metadata or text is missing at a position
\* the index returned: it returns one record per valid position, with the
\* fallback labels where the metadata has no field or no entry.
C10_FallbackLabels ==
  \A t \in Threads :
    Finished(t) =>
      LET valid == ValidHits(q[t].hits, Len(q[t].hits))
      IN  /\ q[t].pc = "done"
          /\ Len(q[t].result) = Len(valid)
          /\ \A j \in 1..Len(valid) :
               LET want == LabelsOrFallback(retr._metadata, valid[j].idx)
               IN  /\ q[t].result[j].airline = want.airline
                   /\ q[t].result[j].policy_type = want.policy_type
                   /\ q[t].result[j].cabin_class = want.cabin_class


\* ---------------------------------------------------- claims: ranking order

\* C11: a call returns its records in the order the index ranked them: the
\* valid hits come best first, record j is the record of the j-th valid hit
\* with that hit's score rounded, and so the rounded score of every record
\* is at least that of the record after it.
C11_RankingOrder ==
  \A t \in Threads :
    q[t].pc = "done" =>
      LET valid == ValidHits(q[t].hits, Len(q[t].hits))
          result == q[t].result
      IN  /\ Len(result) = Len(valid)
          /\ \A j \in 1..Len(valid) :
               /\ result[j].score = Round4(valid[j].score)
               /\ result[j].text = retr._texts[valid[j].idx + 1]
          /\ \A j \in 1..(Len(valid) - 1) : valid[j].score >= valid[j + 1].score
          /\ \A j \in 1..(Len(result) - 1) : result[j].score >= result[j + 1].score

\* A call returned three records and the first scores strictly higher than
\* the last.
C11_Witness ==
  /\ q[1].pc = "done"
  /\ Len(q[1].result) = 3
  /\ q[1].result[1].score > q[1].result[3].score


\* -------------------------------------------------- claims: chunks, labels

\* The positions of the heading lines of a document, in document order.
HeadingPositions(text) ==
  SelectSeq([n \in 1..Len(text) |-> n], LAMBDA n : IsHeadingLine(text[n]))

\* C12: chunk_markdown returns one chunk per heading line, in document order:
\* chunk j starts with the j-th heading line, carries its heading text and
\* runs up to the line before the next heading line; what stands before the
\* first heading line is in no chunk, so a document without a heading line
\* gives no chunk.
C12_ChunkPerHeading ==
  fn.op = "chunk_markdown" =>
    LET text == fn.arg
        at == HeadingPositions(text)
        end(j) == IF j < Len(at) THEN at[j + 1] - 1 ELSE Len(text)
    IN  /\ Len(fn.out) = Len(at)
        /\ \A j \in 1..Len(fn.out) : IsHeadingLine(fn.out[j].text[1])
        /\ \A j \in 1..Min(Len(at), Len(fn.out)) :
             /\ fn.out[j].text = Strip(SubSeq(text, at[j], end(j)))
             /\ fn.out[j].heading = Tail(text[at[j]])

RuleMatches(rule, heading) ==
  \E n \in 1..Len(rule.keywords) : KeywordIn(rule.keywords[n], LowerLine(heading))

\* label is what first-match-wins gives for the heading: the label of the
\* rule that matches while no rule before it does, the fallback if none does.
IsFirstMatch(rules, heading, fallback, label) ==
  /\ \A n \in 1..Len(rules) :
       (RuleMatches(rules[n], heading)
          /\ \A m \in 1..(n - 1) : ~ RuleMatches(rules[m], heading))
       => label = rules[n].label
  /\ (\A n \in 1..Len(rules) : ~ RuleMatches(rules[n], heading)) => label = fallback

\* C13: for every heading, policy_type is the label of the first of the
\* rules baggage, cancellation, check_in that has a keyword in the
\* lower-cased heading, else "general"; cabin_class is the first of first,
\* business, economy that matches, else "all"; both are in the closed sets.
C13_FirstMatchWins ==
  /\ [n \in 1..3 |-> POLICY_TYPE_KEYWORDS[n].label] = << "baggage", "cancellation", "check_in" >>
  /\ [n \in 1..3 |-> CABIN_CLASS_KEYWORDS[n].label] = << "first", "business", "economy" >>
  /\ fn.op = "derive" =>
       /\ IsFirstMatch(POLICY_TYPE_KEYWORDS, fn.arg, "general", fn.out.policy_type)
       /\ IsFirstMatch(CABIN_CLASS_KEYWORDS, fn.arg, "all", fn.out.cabin_class)
       /\ fn.out.policy_type \in {"baggage", "cancellation", "check_in", "general"}
       /\ fn.out.cabin_class \in {"first", "business", "economy", "all"}

\* A heading that two policy rules match got the label of the earlier rule.
C13_Witness ==
  /\ fn.op = "derive"
  /\ RuleMatches(POLICY_TYPE_KEYWORDS[1], fn.arg)
  /\ RuleMatches(POLICY_TYPE_KEYWORDS[2], fn.arg)
  /\ fn.out.policy_type = "baggage"


\* A filename stem in lower case with its words joined by underscores.
SnakeCase(stem) ==
  CASE stem = "Air Blue" -> "air_blue"
    [] stem = "README" -> "readme"
    [] OTHER -> stem

\* C14: the airline stored with every chunk of a document is the entry of
\* the lookup table for the filename stem and, for a stem the table does not
\* have, the stem in lower case with underscores for spaces.
C14_AirlineNormalized ==
  \A n \in 1..Len(ingest.all_meta) :
    LET stem == ingest.all_meta[n].source_file.stem
    IN  ingest.all_meta[n].airline =
          IF stem \in DOMAIN AIRLINE_FROM_STEM
            THEN AIRLINE_FROM_STEM[stem] ELSE SnakeCase(stem)


\* ---------------------------------------------------- claims: airline hint

FilePos(f) == CHOOSE n \in 1..Len(FileOrder) : FileOrder[n] = f

\* Two metadata records agree on everything but the id.
SameButId(m1, m2) ==
  /\ m1.airline = m2.airline
  /\ m1.policy_type = m2.policy_type
  /\ m1.cabin_class = m2.cabin_class
  /\ m1.source_file = m2.source_file
  /\ m1.heading = m2.heading

\* C16: ingest() goes through the documents in lexicographic order of their
\* file names and through the sections of a document in document order, and
\* the vectors follow the order of the texts; a run that repeats a
\* successful run on the same directory stores the same texts and vectors
\* and, at every position, the same metadata but for the id.
C16_DeterministicOrder ==
  /\ \A n, m \in 1..Len(ingest.all_meta) :
       n < m => FilePos(ingest.all_meta[n].source_file)
                  <= FilePos(ingest.all_meta[m].source_file)
  /\ \A j \in 1..(ingest.i - 1) :
       LET f == ingest.md_files[j]
           at == SelectSeq([n \in 1..Len(ingest.all_meta) |-> n],
                           LAMBDA n : ingest.all_meta[n].source_file = f)
       IN  [c \in 1..Len(at) |-> ingest.all_texts[at[c]]]
             = TextsOf(chunk_markdown(corpus[f].text))
  /\ \A n \in 1..Len(ingest.embeddings) :
       ingest.embeddings[n] = Embed(ingest.all_texts[n])
  /\ (ingest.pc = "done" /\ ingest.rerun) =>
       /\ disk.texts.data = before.texts.data
       /\ disk.index.data = before.index.data
       /\ Len(disk.meta.data) = Len(before.meta.data)
       /\ \A n \in 1..Len(disk.meta.data) :
            SameButId(disk.meta.data[n], before.meta.data[n])

\* A run repeated a successful run over two documents with chunks; the ids
\* of the two stores differ.
C16_Witness ==
  /\ ingest.pc = "done" /\ ingest.rerun
  /\ Len(disk.meta.data) >= 4
  /\ disk.meta.data[1].source_file # disk.meta.data[Len(disk.meta.data)].source_file
  /\ disk.meta.data[1].id # before.meta.data[1].id


\* ------------------------------------------------- claims: failed queries

\* C17: a call of query_policy embeds once and searches once, also when the
\* embedding or the search fails; the failure leaves the call, which then
\* has returned no record.
C17_FailurePropagates ==
  \A t \in Threads :
    /\ q[t].embeds <= 1 /\ q[t].searches <= 1
    /\ q[t].pc = "search" => (q[t].embeds = 1 /\ q[t].searches = 0)
    /\ q[t].pc \in {"loop", "done", "raised"} => (q[t].embeds = 1 /\ q[t].searches = 1)
    /\ q[t].pc = "failed" =>
         /\ q[t].embeds = 1
         /\ q[t].result = <<>>
         /\ q[t].chunks = <<>>
         /\ q[t].searches = 1 => q[t].hits = <<>>

\* The search of a call failed after its one embedding.
C17_Witness ==
  /\ q[1].pc = "failed"
  /\ q[1].embeds = 1
  /\ q[1].searches = 1


\* ------------------------------------------------ claims: the chat history

\* C18: when run_agent raises, the rollback removes the user message that
\* this request appended and no other entry of the history.
C18_RollbackOwnMessage ==
  \A t \in Threads :
    req[t].pc = "fallback" => req[t].popped = UserMessage(req[t].message)

\* The messages the requests in progress have appended: the user message,
\* and the reply once it is there.
Pending(t) ==
  IF req[t].pc = "agent" THEN 1 ELSE IF req[t].pc = "truncate" THEN 2 ELSE 0

RECURSIVE SumPending(_)
SumPending(T) ==
  IF T = {} THEN 0
  ELSE LET t == CHOOSE u \in T : TRUE IN Pending(t) + SumPending(T \ {t})

ToolUses(content) == SelectSeq(content, LAMBDA b : b.type = "tool_use")

\* turn is a user turn that answers the tool_use blocks of content: one
\* tool_result per block, with the id of that block, in the same order.
AnswersToolUses(turn, content) ==
  /\ turn.role = "user"
  /\ Len(turn.content) = Len(ToolUses(content))
  /\ \A j \in 1..Len(turn.content) :
       /\ turn.content[j].type = "tool_result"
       /\ turn.content[j].tool_use_id = ToolUses(content)[j].id

\* In a message list, every assistant message the loop appended is followed
\* at once by the user turn that answers its tool_use blocks.
ToolUsesAnswered(messages, start) ==
  \A p \in (start + 1)..Len(messages) :
    messages[p].role = "assistant" =>
      /\ p < Len(messages)
      /\ AnswersToolUses(messages[p + 1], messages[p].content)

\* The ids of the tool_use blocks of the assistant messages the loop appended.
RECURSIVE ToolUseIds(_, _)
ToolUseIds(messages, start) ==
  IF Len(messages) <= start THEN <<>>
  ELSE LET last == messages[Len(messages)]
           uses == IF last.role = "assistant" THEN ToolUses(last.content) ELSE <<>>
       IN  ToolUseIds(SubSeq(messages, 1, Len(messages) - 1), start)
             \o [j \in 1..Len(uses) |-> uses[j].id]

\* C20: whatever the loop sends to the model after a tool_use response has,
\* right after the assistant message with the tool_use blocks, one user turn
\* with one tool_result per tool_use block, same ids, same order; every
\* tool_use is dispatched once and none twice.
C20_ToolResultsPaired ==
  /\ ToolUsesAnswered(agent.sent, agent.start)
  /\ agent.pc = "create" =>
       /\ ToolUsesAnswered(agent.messages, agent.start)
       /\ agent.dispatched = ToolUseIds(agent.messages, agent.start)
  /\ \A j, k \in 1..Len(agent.dispatched) :
       j # k => agent.dispatched[j] # agent.dispatched[k]

\* The loop has sent the model the results of a response with two tool_use
\* blocks.
C20_Witness ==
  /\ agent.round = 2
  /\ \E p \in (agent.start + 1)..(Len(agent.sent) - 1) :
       /\ agent.sent[p].role = "assistant"
       /\ Len(ToolUses(agent.sent[p].content)) = 2
       /\ Len(agent.sent[p + 1].content) = 2


\* A list of messages that is empty or goes user, assistant, user, ... and
\* ends with an assistant message.
Alternates(list) ==
  /\ Len(list) % 2 = 0
  /\ \A n \in 1..Len(list) :
       list[n].role = IF n % 2 = 1 THEN "user" ELSE "assistant"

\* C21: when the requests are handled one after the other, the history
\* between two requests is empty or an alternation of user and assistant
\* messages from a user message to an assistant message, and while a
\* request waits for run_agent it is such an alternation followed by the
\* user message of the request.
C21_Alternation ==
  /\ NoneInProgress => Alternates(_history)
  /\ \A t \in Threads :
       req[t].pc = "agent" =>
         /\ _history # <<>>
         /\ _history[Len(_history)] = UserMessage(req[t].message)
         /\ Alternates(SubSeq(_history, 1, Len(_history) - 1))

\* On a full history one request was answered, which dropped the oldest
\* turn, and then another failed and was rolled back.
C21_Witness ==
  /\ NoneInProgress
  /\ req[1].pc = "returned"
  /\ req[2].pc = "fallback"
  /\ req[2].message[2] > req[1].message[2]
  /\ Len(_history) = MaxHistory
  /\ _history[1] # OldMessage(1)


\* C22: whenever run_agent raises, the handler returns the fallback reply
\* with an empty reasoning list, whatever other requests did to the history
\* in the meantime.
C22_FailureNeverEscapes ==
  \A t \in Threads :
    req[t].raised =>
      /\ req[t].pc = "fallback"
      /\ req[t].response = FallbackResponse


\* ------------------------------------------- claims: the end of run_agent

\* C23: run_agent returns at the first response whose stop_reason is not
\* tool_use, with the first text for end_turn and the fixed reply otherwise,
\* and at no other response: as long as the model answers tool_use the loop
\* goes on, every tool round ending in the next call of the model unless a
\* tool raises.
C23_ReturnsOnStop ==
  /\ [](LET n == Len(agent.stops)
        IN  /\ \A j \in 1..(n - 1) : agent.stops[j] = "tool_use"
            /\ agent.pc = "returned" <=> (n > 0 /\ agent.stops[n] # "tool_use")
            /\ agent.pc = "returned" =>
                 agent.reply = IF agent.stops[n] = "end_turn"
                                 THEN FinalText(agent.content) ELSE UnexpectedReply
            /\ agent.pc = "dispatch" => (n > 0 /\ agent.stops[n] = "tool_use"))
  /\ (agent.pc = "dispatch") ~> (agent.pc \in {"create", "raised"})

\* After as many tool_use responses as the model gives in a behaviour, the
\* loop is about to call the model again.
C23_Witness ==
  /\ agent.pc = "create"
  /\ Len(agent.stops) = MaxRounds
  /\ \A j \in 1..MaxRounds : agent.stops[j] = "tool_use"

====
